---------------------------- MODULE Spec2Model ----------------------------
(***************************************************************************)
(* A model of the ray tracer `rt` (src/src/*.rs): the vector kernel, the   *)
(* four primitives' intersection tests, Scene::hit, Scene::ray_color and   *)
(* Scene::render.                                                          *)
(*                                                                         *)
(* f64 values are modelled as fixed-point numbers with SCALE units per 1.0 *)
(* together with the three IEEE specials NaN, +inf and -inf.  Every        *)
(* arithmetic operator rounds its exact result to the nearest unit, as the *)
(* f64 operator rounds to the nearest double, and overflows to an infinity *)
(* beyond MAXFIN.  Signed zeros are not distinguished.                     *)
(***************************************************************************)
EXTENDS Integers, Sequences, FiniteSets, TLC

(***************************************************************************)
(* f64                                                                     *)
(***************************************************************************)
SCALE == 1000
MAXFIN == 1000000
PInf == 1000000000
NInf == -PInf
NaN == PInf + 1

\* the literal n.0
F(n) == n * SCALE
\* the literal m/1000, e.g. Milli(700) is 0.7 and Milli(1) is 0.001
Milli(m) == (m * SCALE) \div 1000

IsNaN(a) == a = NaN
IsInf(a) == a = PInf \/ a = NInf
IsFinite(a) == ~IsNaN(a) /\ ~IsInf(a)

IAbs(n) == IF n < 0 THEN -n ELSE n
ISign(n) == IF n < 0 THEN -1 ELSE 1

\* an exact integer result brought back into the f64 range
Overflow(n) == IF n > MAXFIN THEN PInf ELSE IF n < -MAXFIN THEN NInf ELSE n

\* IEEE comparisons: every comparison with NaN is false
Lt(a, b) == ~IsNaN(a) /\ ~IsNaN(b) /\ a < b
Le(a, b) == ~IsNaN(a) /\ ~IsNaN(b) /\ a <= b
Gt(a, b) == Lt(b, a)
Ge(a, b) == Le(b, a)

\* comparisons with the literal 1e-8, which lies strictly between 0 and one unit
LtEps8(a) == ~IsNaN(a) /\ a < 1
GtEps8(a) == ~IsNaN(a) /\ a > 0

FNeg(a) == IF IsNaN(a) THEN NaN ELSE -a

FAdd(a, b) ==
    IF IsNaN(a) \/ IsNaN(b) THEN NaN
    ELSE IF IsInf(a) THEN (IF IsInf(b) /\ b # a THEN NaN ELSE a)
    ELSE IF IsInf(b) THEN b
    ELSE Overflow(a + b)

FSub(a, b) == FAdd(a, FNeg(b))

\* |a| * |b| rounded to the nearest unit; the product is formed in two parts
\* to stay within the integers TLC computes with
MulMagnitude(x, y) == (x \div SCALE) * y + ((x % SCALE) * y + SCALE \div 2) \div SCALE

FMul(a, b) ==
    IF IsNaN(a) \/ IsNaN(b) THEN NaN
    ELSE IF IsInf(a) \/ IsInf(b) THEN
        (IF a = 0 \/ b = 0 THEN NaN
         ELSE IF ISign(a) = ISign(b) THEN PInf ELSE NInf)
    ELSE Overflow(ISign(a) * ISign(b) * MulMagnitude(IAbs(a), IAbs(b)))

\* |a| / |b| rounded to the nearest unit
DivMagnitude(x, y) == (2 * x * SCALE + y) \div (2 * y)

FDiv(a, b) ==
    IF IsNaN(a) \/ IsNaN(b) THEN NaN
    ELSE IF IsInf(a) THEN
        (IF IsInf(b) THEN NaN
         ELSE IF ISign(a) = ISign(b) THEN PInf ELSE NInf)
    ELSE IF IsInf(b) THEN 0
    ELSE IF b = 0 THEN
        (IF a = 0 THEN NaN ELSE IF a > 0 THEN PInf ELSE NInf)
    ELSE Overflow(ISign(a) * ISign(b) * DivMagnitude(IAbs(a), IAbs(b)))

\* base plus the largest multiple d * unit, d in 0..31, whose square with
\* base stays at or below n
SqrtDigit(n, base, unit) ==
    base + unit * (CHOOSE d \in 0..31 :
                     /\ (base + d * unit) * (base + d * unit) <= n
                     /\ n < (base + (d + 1) * unit) * (base + (d + 1) * unit))

\* the largest r with r * r <= n, for 0 <= n < 2^30, digit by digit in base 32
ISqrt(n) == SqrtDigit(n, SqrtDigit(n, SqrtDigit(n, 0, 1024), 32), 1)

\* r or r + 1, whichever is nearer to the square root of n
SqrtRound(n, r) == IF n - r * r > r THEN r + 1 ELSE r

\* f64::sqrt, rounded to the nearest unit; NaN for a negative operand
FSqrt(a) ==
    IF IsNaN(a) \/ a < 0 THEN NaN
    ELSE IF a = PInf THEN PInf
    ELSE SqrtRound(a * SCALE, ISqrt(a * SCALE))

FAbs(a) == IF IsNaN(a) THEN NaN ELSE IAbs(a)

\* f64::min and f64::max return the other operand when one is NaN
FMin(a, b) == IF IsNaN(a) THEN b ELSE IF IsNaN(b) THEN a ELSE IF a < b THEN a ELSE b
FMax(a, b) == IF IsNaN(a) THEN b ELSE IF IsNaN(b) THEN a ELSE IF a > b THEN a ELSE b

FSignum(a) == IF IsNaN(a) THEN NaN ELSE IF a < 0 THEN F(-1) ELSE F(1)

FClamp(a, lo, hi) == IF Lt(a, lo) THEN lo ELSE IF Gt(a, hi) THEN hi ELSE a

\* x^n from h = x^(n div 2)
PowStep(x, n, h) == IF n % 2 = 1 THEN FMul(FMul(h, h), x) ELSE FMul(h, h)

RECURSIVE PowInt(_, _)
\* x^n for an integer n >= 0, by squaring
PowInt(x, n) == IF n = 0 THEN F(1) ELSE PowStep(x, n, PowInt(x, n \div 2))

\* f64::powf for the exponents the materials use: non-negative whole numbers
FPowf(x, y) == IF y = 0 THEN F(1) ELSE IF IsNaN(x) THEN NaN ELSE PowInt(x, y \div SCALE)

(***************************************************************************)
(* Vec3 (vector.rs)                                                        *)
(***************************************************************************)
Vec3(x, y, z) == [x |-> x, y |-> y, z |-> z]
VZero == Vec3(0, 0, 0)

VAdd(a, b) == Vec3(FAdd(a.x, b.x), FAdd(a.y, b.y), FAdd(a.z, b.z))
VSub(a, b) == Vec3(FSub(a.x, b.x), FSub(a.y, b.y), FSub(a.z, b.z))
VScale(a, s) == Vec3(FMul(a.x, s), FMul(a.y, s), FMul(a.z, s))
VMul(a, b) == Vec3(FMul(a.x, b.x), FMul(a.y, b.y), FMul(a.z, b.z))
VDiv(a, s) == Vec3(FDiv(a.x, s), FDiv(a.y, s), FDiv(a.z, s))
VNeg(a) == Vec3(FNeg(a.x), FNeg(a.y), FNeg(a.z))

Dot(a, b) == FAdd(FAdd(FMul(a.x, b.x), FMul(a.y, b.y)), FMul(a.z, b.z))

Cross(a, b) ==
    Vec3(FSub(FMul(a.y, b.z), FMul(a.z, b.y)),
         FSub(FMul(a.z, b.x), FMul(a.x, b.z)),
         FSub(FMul(a.x, b.y), FMul(a.y, b.x)))

LengthSquared(a) == FAdd(FAdd(FMul(a.x, a.x), FMul(a.y, a.y)), FMul(a.z, a.z))
Length(a) == FSqrt(LengthSquared(a))

\* `if len > 0.0 { self / len } else { self }`
NormalizeBy(a, len) == IF Gt(len, 0) THEN VDiv(a, len) ELSE a
Normalize(a) == NormalizeBy(a, Length(a))

Reflect(v, normal) == VSub(v, VScale(VScale(normal, F(2)), Dot(v, normal)))

\* Option<Vec3>: <<>> is None, <<d>> is Some(d)
RefractBy(v, normal, eta, cos_i, sin_t2) ==
    IF Gt(sin_t2, F(1)) THEN <<>>
    ELSE <<VAdd(VScale(v, eta),
                VScale(normal, FSub(FMul(eta, cos_i), FSqrt(FSub(F(1), sin_t2)))))>>
RefractAt(v, normal, eta, cos_i) ==
    RefractBy(v, normal, eta, cos_i, FMul(FMul(eta, eta), FSub(F(1), FMul(cos_i, cos_i))))
Refract(v, normal, eta) == RefractAt(v, normal, eta, FNeg(Dot(v, normal)))

VClamp(a, lo, hi) == Vec3(FClamp(a.x, lo, hi), FClamp(a.y, lo, hi), FClamp(a.z, lo, hi))

(***************************************************************************)
(* Ray and HitRecord (ray.rs)                                              *)
(***************************************************************************)
RayNew(origin, direction) == [origin |-> origin, direction |-> Normalize(direction)]

At(ray, t) == VAdd(ray.origin, VScale(ray.direction, t))

HitRecordFacing(point, outward_normal, t, front_face) ==
    [point |-> point,
     normal |-> IF front_face THEN outward_normal ELSE VNeg(outward_normal),
     t |-> t,
     front_face |-> front_face]
HitRecordNew(point, outward_normal, t, ray) ==
    HitRecordFacing(point, outward_normal, t, Lt(Dot(ray.direction, outward_normal), 0))

(***************************************************************************)
(* Material (material.rs) and the primitives (objects.rs).  A primitive is *)
(* a record with a kind tag; the fields its kind does not use are zero.    *)
(* Option<HitRecord>: <<>> is None, <<h>> is Some(h).                      *)
(***************************************************************************)
MaterialNew(color, ambient, diffuse, specular, shininess, reflectivity, transparency, refractive_index) ==
    [color |-> color, ambient |-> ambient, diffuse |-> diffuse,
     specular |-> specular, shininess |-> shininess,
     reflectivity |-> reflectivity, transparency |-> transparency,
     refractive_index |-> refractive_index]

SphereNew(center, radius, material) ==
    [kind |-> "sphere", center |-> center, normal |-> VZero, radius |-> radius,
     size |-> 0, height |-> 0, material |-> material]

\* Plane::new normalizes the normal; `center` holds the plane's point
PlaneNew(point, normal, material) ==
    [kind |-> "plane", center |-> point, normal |-> Normalize(normal), radius |-> 0,
     size |-> 0, height |-> 0, material |-> material]

CubeNew(center, size, material) ==
    [kind |-> "cube", center |-> center, normal |-> VZero, radius |-> 0,
     size |-> size, height |-> 0, material |-> material]

CylinderNew(center, radius, height, material) ==
    [kind |-> "cylinder", center |-> center, normal |-> VZero, radius |-> radius,
     size |-> 0, height |-> height, material |-> material]

\* the range test `root < t_min || t_max < root` of Sphere::hit
SphereOutOfRange(root, t_min, t_max) == Lt(root, t_min) \/ Lt(t_max, root)

\* Sphere::hit, its lets bound one operator after the other, the last first
SphereRecord(self, ray, root, point) ==
    <<HitRecordNew(point, VDiv(VSub(point, self.center), self.radius), root, ray)>>

\* `root` is the smaller root unless it is out of range
SphereRoot(self, ray, t_min, t_max, root1, root2) ==
    IF SphereOutOfRange(root1, t_min, t_max)
    THEN (IF SphereOutOfRange(root2, t_min, t_max) THEN <<>>
          ELSE SphereRecord(self, ray, root2, At(ray, root2)))
    ELSE SphereRecord(self, ray, root1, At(ray, root1))

SphereRoots(self, ray, t_min, t_max, a, half_b, sqrtd) ==
    SphereRoot(self, ray, t_min, t_max,
               FDiv(FSub(FNeg(half_b), sqrtd), a), FDiv(FAdd(FNeg(half_b), sqrtd), a))

SphereDiscriminant(self, ray, t_min, t_max, a, half_b, discriminant) ==
    IF Lt(discriminant, 0) THEN <<>>
    ELSE SphereRoots(self, ray, t_min, t_max, a, half_b, FSqrt(discriminant))

SphereQuadratic(self, ray, t_min, t_max, a, half_b, c) ==
    SphereDiscriminant(self, ray, t_min, t_max, a, half_b,
                       FSub(FMul(half_b, half_b), FMul(a, c)))

SphereFrom(self, ray, t_min, t_max, oc) ==
    SphereQuadratic(self, ray, t_min, t_max, LengthSquared(ray.direction),
                    Dot(oc, ray.direction),
                    FSub(LengthSquared(oc), FMul(self.radius, self.radius)))

SphereHit(self, ray, t_min, t_max) ==
    SphereFrom(self, ray, t_min, t_max, VSub(ray.origin, self.center))

\* Plane::hit with the lower bound of the range test left out
PlaneOutOfRangeUpperOnly(t, t_min, t_max) == Gt(t, t_max)

\* the range test `t < t_min || t > t_max` of Plane::hit
PlaneOutOfRange(t, t_min, t_max) == Lt(t, t_min) \/ Gt(t, t_max)

PlaneAt(self, ray, t_min, t_max, t) ==
    IF PlaneOutOfRange(t, t_min, t_max) THEN <<>>
    ELSE <<HitRecordNew(At(ray, t), self.normal, t, ray)>>

PlaneDenom(self, ray, t_min, t_max, denom) ==
    IF LtEps8(FAbs(denom)) THEN <<>>
    ELSE PlaneAt(self, ray, t_min, t_max,
                 FDiv(Dot(VSub(self.center, ray.origin), self.normal), denom))

PlaneHit(self, ray, t_min, t_max) ==
    PlaneDenom(self, ray, t_min, t_max, Dot(self.normal, ray.direction))

\* the range test `t < t_min || t > t_max` of Cube::hit
CubeOutOfRange(t, t_min, t_max) == Lt(t, t_min) \/ Gt(t, t_max)

\* the face selection of Cube::hit
\* a face selection in which x wins a tie with y or z, and y one with z
CubeNormalTiesToX(center_to_point) ==
    IF Ge(FAbs(center_to_point.x), FAbs(center_to_point.y))
       /\ Ge(FAbs(center_to_point.x), FAbs(center_to_point.z))
    THEN Vec3(FSignum(center_to_point.x), 0, 0)
    ELSE IF Ge(FAbs(center_to_point.y), FAbs(center_to_point.z))
    THEN Vec3(0, FSignum(center_to_point.y), 0)
    ELSE Vec3(0, 0, FSignum(center_to_point.z))

\* `let normal = if abs_x > abs_y && abs_x > abs_z { .. } else if abs_y > abs_z { .. } else { .. }`
CubeNormal(center_to_point) ==
    IF Gt(FAbs(center_to_point.x), FAbs(center_to_point.y))
       /\ Gt(FAbs(center_to_point.x), FAbs(center_to_point.z))
    THEN Vec3(FSignum(center_to_point.x), 0, 0)
    ELSE IF Gt(FAbs(center_to_point.y), FAbs(center_to_point.z))
    THEN Vec3(0, FSignum(center_to_point.y), 0)
    ELSE Vec3(0, 0, FSignum(center_to_point.z))

\* Cube::hit, its lets bound one operator after the other, the last first
CubeRecord(self, ray, t, point) ==
    <<HitRecordNew(point, CubeNormal(VSub(point, self.center)), t, ray)>>

CubeAt(self, ray, t_min, t_max, t) ==
    IF CubeOutOfRange(t, t_min, t_max) THEN <<>> ELSE CubeRecord(self, ray, t, At(ray, t))

CubeInterval(self, ray, t_min, t_max, tmin, tmax) ==
    IF Lt(tmax, 0) \/ Gt(tmin, tmax) THEN <<>>
    ELSE CubeAt(self, ray, t_min, t_max, IF Lt(tmin, t_min) THEN tmax ELSE tmin)

CubeSlabs(self, ray, t_min, t_max, t1, t2, t3, t4, t5, t6) ==
    CubeInterval(self, ray, t_min, t_max,
                 FMax(FMax(FMin(t1, t2), FMin(t3, t4)), FMin(t5, t6)),
                 FMin(FMin(FMax(t1, t2), FMax(t3, t4)), FMax(t5, t6)))

CubeBox(self, ray, t_min, t_max, min, max, inv_dir) ==
    CubeSlabs(self, ray, t_min, t_max,
              FMul(FSub(min.x, ray.origin.x), inv_dir.x),
              FMul(FSub(max.x, ray.origin.x), inv_dir.x),
              FMul(FSub(min.y, ray.origin.y), inv_dir.y),
              FMul(FSub(max.y, ray.origin.y), inv_dir.y),
              FMul(FSub(min.z, ray.origin.z), inv_dir.z),
              FMul(FSub(max.z, ray.origin.z), inv_dir.z))

CubeHalf(self, ray, t_min, t_max, half_size) ==
    CubeBox(self, ray, t_min, t_max,
            VSub(self.center, Vec3(half_size, half_size, half_size)),
            VAdd(self.center, Vec3(half_size, half_size, half_size)),
            Vec3(FDiv(F(1), ray.direction.x), FDiv(F(1), ray.direction.y),
                 FDiv(F(1), ray.direction.z)))

CubeHit(self, ray, t_min, t_max) == CubeHalf(self, ray, t_min, t_max, FDiv(self.size, F(2)))

\* the two roots t1, t2 of the lateral quadratic of Cylinder::hit, <<>> when
\* the discriminant is negative
CylinderSolve(a, b, sqrt_discriminant) ==
    <<FDiv(FSub(FNeg(b), sqrt_discriminant), FMul(F(2), a)),
      FDiv(FAdd(FNeg(b), sqrt_discriminant), FMul(F(2), a))>>

CylinderDiscriminant(a, b, discriminant) ==
    IF Lt(discriminant, 0) THEN <<>> ELSE CylinderSolve(a, b, FSqrt(discriminant))

CylinderQuadratic(a, b, c) ==
    CylinderDiscriminant(a, b, FSub(FMul(b, b), FMul(FMul(F(4), a), c)))

CylinderFrom(self, ray, oc) ==
    CylinderQuadratic(
        FAdd(FMul(ray.direction.x, ray.direction.x), FMul(ray.direction.z, ray.direction.z)),
        FMul(F(2), FAdd(FMul(oc.x, ray.direction.x), FMul(oc.z, ray.direction.z))),
        FSub(FAdd(FMul(oc.x, oc.x), FMul(oc.z, oc.z)), FMul(self.radius, self.radius)))

CylinderRoots(self, ray) == CylinderFrom(self, ray, VSub(ray.origin, self.center))

\* `t >= t_min && t <= t_max`
CylinderInRange(t, t_min, t_max) == Ge(t, t_min) /\ Le(t, t_max)

\* `y >= -half_height && y <= half_height`
CylinderInBand(y, half_height) == Ge(y, FNeg(half_height)) /\ Le(y, half_height)

\* a lateral root is accepted when the point lies within the height band
CylinderLateralOk(self, ray, t) ==
    CylinderInBand(FSub(At(ray, t).y, self.center.y), FDiv(self.height, F(2)))

CylinderLateralAt(self, ray, t, point) ==
    HitRecordNew(point,
                 Vec3(FDiv(FSub(point.x, self.center.x), self.radius), 0,
                      FDiv(FSub(point.z, self.center.z), self.radius)),
                 t, ray)

CylinderLateralRecord(self, ray, t) == CylinderLateralAt(self, ray, t, At(ray, t))

\* the crossing of the cap plane y = y_cap
CylinderCapT(ray, y_cap) == FDiv(FSub(y_cap, ray.origin.y), ray.direction.y)

\* `dx * dx + dz * dz <= self.radius * self.radius`
CylinderInDisc(self, dx, dz) ==
    Le(FAdd(FMul(dx, dx), FMul(dz, dz)), FMul(self.radius, self.radius))

CylinderCapAt(self, point) ==
    CylinderInDisc(self, FSub(point.x, self.center.x), FSub(point.z, self.center.z))

\* a cap crossing is accepted when the point lies within the cap radius
CylinderCapOk(self, ray, t) == CylinderCapAt(self, At(ray, t))

\* the bottom cap, then the top cap
CylinderCaps(self, ray, t_min, t_max, t_bottom, t_top) ==
    IF CylinderInRange(t_bottom, t_min, t_max) /\ CylinderCapOk(self, ray, t_bottom)
    THEN <<HitRecordNew(At(ray, t_bottom), Vec3(0, F(-1), 0), t_bottom, ray)>>
    ELSE IF CylinderInRange(t_top, t_min, t_max) /\ CylinderCapOk(self, ray, t_top)
    THEN <<HitRecordNew(At(ray, t_top), Vec3(0, F(1), 0), t_top, ray)>>
    ELSE <<>>

\* the loop over [t1, t2], then the caps when the ray is not horizontal
CylinderLateral(self, ray, t_min, t_max, roots, half_height) ==
    IF roots = <<>> THEN <<>>
    ELSE IF CylinderInRange(roots[1], t_min, t_max) /\ CylinderLateralOk(self, ray, roots[1])
    THEN <<CylinderLateralRecord(self, ray, roots[1])>>
    ELSE IF CylinderInRange(roots[2], t_min, t_max) /\ CylinderLateralOk(self, ray, roots[2])
    THEN <<CylinderLateralRecord(self, ray, roots[2])>>
    ELSE IF ~GtEps8(FAbs(ray.direction.y)) THEN <<>>
    ELSE CylinderCaps(self, ray, t_min, t_max,
                      CylinderCapT(ray, FSub(self.center.y, half_height)),
                      CylinderCapT(ray, FAdd(self.center.y, half_height)))

CylinderHit(self, ray, t_min, t_max) ==
    CylinderLateral(self, ray, t_min, t_max, CylinderRoots(self, ray), FDiv(self.height, F(2)))

\* the dynamic dispatch of `dyn Object`
ObjectHit(object, ray, t_min, t_max) ==
    CASE object.kind = "sphere" -> SphereHit(object, ray, t_min, t_max)
      [] object.kind = "plane" -> PlaneHit(object, ray, t_min, t_max)
      [] object.kind = "cube" -> CubeHit(object, ray, t_min, t_max)
      [] object.kind = "cylinder" -> CylinderHit(object, ray, t_min, t_max)

(***************************************************************************)
(* Scene::hit (scene.rs).  Option<(HitRecord, &dyn Object)>: <<>> is None, *)
(* <<h, i>> is Some((h, &objects[i])).                                     *)
(***************************************************************************)
\* the loop body of Scene::hit without `closest_t = hit_record.t`
SceneHitKeepBound(acc, i, hit) ==
    IF hit # <<>> THEN [closest_t |-> acc.closest_t, closest_hit |-> <<hit[1], i>>] ELSE acc
SceneHitVisitKeepBound(acc, object, i, ray, t_min) ==
    SceneHitKeepBound(acc, i, ObjectHit(object, ray, t_min, acc.closest_t))

\* `if let Some(hit_record) = ... { closest_t = hit_record.t; closest_hit = Some(...) }`
SceneHitKeep(acc, i, hit) ==
    IF hit # <<>> THEN [closest_t |-> hit[1].t, closest_hit |-> <<hit[1], i>>] ELSE acc

\* one iteration of the loop of Scene::hit, on objects[i]
SceneHitVisit(acc, object, i, ray, t_min) ==
    SceneHitKeep(acc, i, ObjectHit(object, ray, t_min, acc.closest_t))

RECURSIVE SceneHitLoop(_, _, _, _, _)
SceneHitLoop(acc, objs, i, ray, t_min) ==
    IF i > Len(objs) THEN acc
    ELSE SceneHitLoop(SceneHitVisit(acc, objs[i], i, ray, t_min), objs, i + 1, ray, t_min)

SceneHit(objs, ray, t_min, t_max) ==
    SceneHitLoop([closest_t |-> t_max, closest_hit |-> <<>>], objs, 1, ray, t_min).closest_hit

(***************************************************************************)
(* Light (light.rs)                                                        *)
(***************************************************************************)
LightNew(position, color, intensity) ==
    [position |-> position, color |-> color, intensity |-> intensity]

DirectionFrom(light, point) == Normalize(VSub(light.position, point))
DistanceFrom(light, point) == Length(VSub(light.position, point))

\* 1.0 / (1.0 + 0.1 * distance + 0.01 * distance * distance)
Attenuation(light, distance) ==
    FDiv(F(1), FAdd(FAdd(F(1), FMul(Milli(100), distance)),
                    FMul(FMul(Milli(10), distance), distance)))

(***************************************************************************)
(* Camera (camera.rs)                                                      *)
(***************************************************************************)
\* (fov.to_radians() / 2.0).tan(), tabulated for the fields of view used
TanHalfFov(fov) ==
    CASE fov = F(90) -> Milli(1000)
      [] fov = F(65) -> Milli(637)
      [] fov = F(60) -> Milli(577)

\* Camera::new, its lets bound one operator after the other, the last first
CameraViewport(position, look_at, up, fov, aspect_ratio, u, v, w, horizontal, vertical) ==
    [position |-> position, look_at |-> look_at, up |-> up, fov |-> fov,
     aspect_ratio |-> aspect_ratio, u |-> u, v |-> v, w |-> w,
     horizontal |-> horizontal, vertical |-> vertical,
     lower_left_corner |->
         VSub(VSub(VSub(position, VDiv(horizontal, F(2))), VDiv(vertical, F(2))), w)]

CameraAxes(position, look_at, up, fov, aspect_ratio, half_height, half_width, u, v, w) ==
    CameraViewport(position, look_at, up, fov, aspect_ratio, u, v, w,
                   VScale(VScale(u, half_width), F(2)), VScale(VScale(v, half_height), F(2)))

CameraRight(position, look_at, up, fov, aspect_ratio, half_height, half_width, u, w) ==
    CameraAxes(position, look_at, up, fov, aspect_ratio, half_height, half_width,
               u, Cross(w, u), w)

CameraBack(position, look_at, up, fov, aspect_ratio, half_height, half_width, w) ==
    CameraRight(position, look_at, up, fov, aspect_ratio, half_height, half_width,
                Normalize(Cross(up, w)), w)

CameraHalf(position, look_at, up, fov, aspect_ratio, half_height) ==
    CameraBack(position, look_at, up, fov, aspect_ratio, half_height,
               FMul(aspect_ratio, half_height), Normalize(VSub(position, look_at)))

CameraNew(position, look_at, up, fov, aspect_ratio) ==
    CameraHalf(position, look_at, up, fov, aspect_ratio, TanHalfFov(fov))

GetRay(cam, s, t) ==
    RayNew(cam.position,
           VSub(VAdd(VAdd(cam.lower_left_corner, VScale(cam.horizontal, s)),
                     VScale(cam.vertical, t)),
                cam.position))

(***************************************************************************)
(* Image (image.rs).  pixels is row-major: cell (x, y) is element          *)
(* y * width + x of the Vec, element y * width + x + 1 of the sequence.    *)
(* stores is not a field of Image: it counts, per cell, the assignments    *)
(* set_pixel has made to it.                                               *)
(***************************************************************************)
ImageNew(width, height) ==
    [width |-> width, height |-> height,
     pixels |-> [k \in 1..(width * height) |-> VZero],
     stores |-> [k \in 1..(width * height) |-> 0]]

\* a bounds check that leaves out the last column and the last row
SetPixelExclusive(img, x, y, color) ==
    IF x + 1 < img.width /\ y + 1 < img.height
    THEN [img EXCEPT !.pixels[y * img.width + x + 1] = color, !.stores[y * img.width + x + 1] = @ + 1]
    ELSE img

SetPixel(img, x, y, color) ==
    IF x < img.width /\ y < img.height
    THEN [img EXCEPT !.pixels[y * img.width + x + 1] = color, !.stores[y * img.width + x + 1] = @ + 1]
    ELSE img

GetPixel(img, x, y) ==
    IF x < img.width /\ y < img.height THEN img.pixels[y * img.width + x + 1] ELSE VZero

(***************************************************************************)
(* Scene construction (scene.rs).  A scene is the record of the fields of  *)
(* Scene; camera is an Option: <<>> or <<c>>.                              *)
(***************************************************************************)
SceneNew ==
    [objects |-> <<>>, lights |-> <<>>, camera |-> <<>>,
     background_color |-> Vec3(Milli(700), Milli(800), F(1))]

SceneAddObject(s, object) == [s EXCEPT !.objects = Append(@, object)]
SceneAddLight(s, light) == [s EXCEPT !.lights = Append(@, light)]
SceneSetCamera(s, cam) == [s EXCEPT !.camera = <<cam>>]

(***************************************************************************)
(* Scene::ray_color (scene.rs)                                             *)
(***************************************************************************)
\* the recursion budget render passes to ray_color
MaxDepth == 5

\* material.color * light.color * material.diffuse * diffuse_strength * light.intensity
Diffuse(light, hit_record, material, light_dir) ==
    VScale(VScale(VScale(VMul(material.color, light.color), material.diffuse),
                  FMax(Dot(hit_record.normal, light_dir), 0)),
           light.intensity)

\* light.color * material.specular * spec_strength * light.intensity
Specular(light, hit_record, material, ray, light_dir) ==
    VScale(VScale(VScale(light.color, material.specular),
                  FPowf(FMax(Dot(Normalize(VNeg(ray.direction)),
                                 Reflect(VNeg(light_dir), hit_record.normal)), 0),
                        material.shininess)),
           light.intensity)

\* the shadow ray's query: `self.hit(&shadow_ray, 0.001, light_distance).is_some()`
InShadow(scene, hit_record, light_dir, light_distance) ==
    SceneHit(scene.objects,
             RayNew(VAdd(hit_record.point, VScale(hit_record.normal, Milli(1))), light_dir),
             Milli(1), light_distance) # <<>>

\* a light that is added whether or not its shadow ray hits something
LitUnshadowed(scene, color, light, hit_record, material, ray, light_dir, light_distance) ==
    VAdd(color, VScale(VAdd(Diffuse(light, hit_record, material, light_dir),
                            Specular(light, hit_record, material, ray, light_dir)),
                       Attenuation(light, light_distance)))

\* `if !in_shadow { ... color = color + (diffuse + specular) * attenuation }`
Lit(scene, color, light, hit_record, material, ray, light_dir, light_distance) ==
    IF InShadow(scene, hit_record, light_dir, light_distance) THEN color
    ELSE VAdd(color, VScale(VAdd(Diffuse(light, hit_record, material, light_dir),
                                 Specular(light, hit_record, material, ray, light_dir)),
                            Attenuation(light, light_distance)))

\* one iteration of the loop over the lights: the colour with the light's
\* diffuse and specular terms added unless the shadow ray hits something
LightContribution(scene, color, light, hit_record, material, ray) ==
    Lit(scene, color, light, hit_record, material, ray,
        DirectionFrom(light, hit_record.point), DistanceFrom(light, hit_record.point))

RECURSIVE DirectLighting(_, _, _, _, _, _)
\* the loop `for light in &self.lights` from light k on
DirectLighting(scene, color, k, hit_record, material, ray) ==
    IF k > Len(scene.lights) THEN color
    ELSE DirectLighting(scene,
                        LightContribution(scene, color, scene.lights[k], hit_record, material, ray),
                        k + 1, hit_record, material, ray)

\* the colour before reflection: ambient plus the direct lighting
LocalColor(scene, hit_record, material, ray) ==
    DirectLighting(scene, VAdd(VZero, VScale(material.color, material.ambient)), 1,
                   hit_record, material, ray)

\* a reflection step that the global setting does not gate
ReflectsUngated(material, enable_reflection) == Gt(material.reflectivity, 0)

\* `enable_reflection && material.reflectivity > 0.0`
Reflects(material, enable_reflection) == enable_reflection /\ Gt(material.reflectivity, 0)

ReflectedRay(ray, hit_record) ==
    RayNew(VAdd(hit_record.point, VScale(hit_record.normal, Milli(1))),
           Reflect(ray.direction, hit_record.normal))

\* the two ratios the other way round
RefractionRatioInverted(material, hit_record) ==
    IF hit_record.front_face THEN material.refractive_index
    ELSE FDiv(F(1), material.refractive_index)

\* `if hit_record.front_face { 1.0 / material.refractive_index } else { material.refractive_index }`
RefractionRatio(material, hit_record) ==
    IF hit_record.front_face THEN FDiv(F(1), material.refractive_index)
    ELSE material.refractive_index

\* the refracted ray when `material.transparency > 0.0` and refract gives a
\* direction (<<r>>), <<>> otherwise
RefractedAlong(hit_record, refracted_dir) ==
    IF refracted_dir = <<>> THEN <<>>
    ELSE <<RayNew(VSub(hit_record.point, VScale(hit_record.normal, Milli(1))),
                  refracted_dir[1])>>

RefractedRay(ray, hit_record, material) ==
    IF ~Gt(material.transparency, 0) THEN <<>>
    ELSE RefractedAlong(hit_record,
                        Refract(ray.direction, hit_record.normal,
                                RefractionRatio(material, hit_record)))

\* color * (1.0 - k) + other * k
Blend(color, other, k) == VAdd(VScale(color, FSub(F(1), k)), VScale(other, k))

\* an exhaustion test that lets depth 0 through
ExhaustedBelowZero(depth) == depth < 0

\* `depth <= 0`: the bounce budget is exhausted
Exhausted(depth) == depth <= 0

\* a recursive call that passes its own depth on
ChildDepthSame(depth) == depth

\* `depth - 1`: the depth both recursive calls pass
ChildDepth(depth) == depth - 1

RECURSIVE RayColor(_, _, _, _)

\* the refraction step on `color`, the colour the reflection step left
Refracted(scene, depth, enable_reflection, material, color, refracted_ray) ==
    IF refracted_ray # <<>>
    THEN Blend(color,
               RayColor(scene, refracted_ray[1], ChildDepth(depth), enable_reflection),
               material.transparency)
    ELSE color

\* the reflection step on `color`, the ambient and direct lighting
Reflected(scene, ray, depth, enable_reflection, hit_record, material, color) ==
    IF Reflects(material, enable_reflection)
    THEN Blend(color,
               RayColor(scene, ReflectedRay(ray, hit_record), ChildDepth(depth),
                        enable_reflection),
               material.reflectivity)
    ELSE color

\* the branch `Some((hit_record, object))`
Shade(scene, ray, depth, enable_reflection, hit_record, material) ==
    VClamp(Refracted(scene, depth, enable_reflection, material,
                     Reflected(scene, ray, depth, enable_reflection, hit_record, material,
                               LocalColor(scene, hit_record, material, ray)),
                     RefractedRay(ray, hit_record, material)),
           0, F(1))

\* `if let Some((hit_record, object)) = self.hit(ray, 0.001, f64::INFINITY)`
Seen(scene, ray, depth, enable_reflection, found) ==
    IF found = <<>> THEN scene.background_color
    ELSE Shade(scene, ray, depth, enable_reflection, found[1],
               scene.objects[found[2]].material)

RayColor(scene, ray, depth, enable_reflection) ==
    IF Exhausted(depth) THEN VZero
    ELSE Seen(scene, ray, depth, enable_reflection,
              SceneHit(scene.objects, ray, Milli(1), PInf))

(***************************************************************************)
(* Scene::ray_color, one invocation at a time.  The call stack is a        *)
(* sequence of frames, the innermost last.  A frame holds the arguments    *)
(* ray and depth, where the invocation stands (stage: "enter" before the   *)
(* body runs, "reflecting" or "refracting" while it waits for that         *)
(* recursive call), its locals hit_record, material and color, and the     *)
(* number of recursive calls it has made.                                  *)
(***************************************************************************)
NoHit == [point |-> VZero, normal |-> VZero, t |-> 0, front_face |-> FALSE]

Frame(r, depth) ==
    [ray |-> r, depth |-> depth, stage |-> "enter", hit_record |-> NoHit,
     material |-> MaterialNew(VZero, 0, 0, 0, 0, 0, 0, 0), color |-> VZero, made |-> 0]

\* the outcome of a step: the stack it leaves, the value it returns (<<>>
\* when it calls instead of returning) and the scene queries it made
Returns(rest, color, asked) == [stack |-> rest, ret |-> <<color>>, asked |-> asked]
Calls(rest, frame, stage, color, r, asked) ==
    [stack |-> rest \o <<[frame EXCEPT !.stage = stage, !.color = color, !.made = @ + 1],
                         Frame(r, ChildDepth(frame.depth))>>,
     ret |-> <<>>, asked |-> asked]

\* the refraction step and the return, with `color` as the reflection step
\* left it
RefractionAlong(rest, frame, color, asked, refracted_ray) ==
    IF refracted_ray # <<>>
    THEN Calls(rest, frame, "refracting", color, refracted_ray[1], asked)
    ELSE Returns(rest, VClamp(color, 0, F(1)), asked)

Refraction(rest, frame, color, asked) ==
    RefractionAlong(rest, frame, color, asked,
                    RefractedRay(frame.ray, frame.hit_record, frame.material))

\* the reflection step, with `color` the ambient and direct lighting
Reflection(scene, rest, frame, enable_reflection, color) ==
    IF Reflects(frame.material, enable_reflection)
    THEN Calls(rest, frame, "reflecting", color, ReflectedRay(frame.ray, frame.hit_record),
               1 + Len(scene.lights))
    ELSE Refraction(rest, frame, color, 1 + Len(scene.lights))

\* the branch `Some((hit_record, object))`, the frame holding both
EnterHit(scene, rest, frame, enable_reflection) ==
    Reflection(scene, rest, frame, enable_reflection,
               LocalColor(scene, frame.hit_record, frame.material, frame.ray))

EnterSeen(scene, rest, frame, enable_reflection, found) ==
    IF found = <<>> THEN Returns(rest, scene.background_color, 1)
    ELSE EnterHit(scene, rest,
                  [frame EXCEPT !.hit_record = found[1],
                                !.material = scene.objects[found[2]].material],
                  enable_reflection)

\* the body up to the first recursive call or the return
Enter(scene, rest, frame, enable_reflection) ==
    IF Exhausted(frame.depth) THEN Returns(rest, VZero, 0)
    ELSE EnterSeen(scene, rest, frame, enable_reflection,
                   SceneHit(scene.objects, frame.ray, Milli(1), PInf))

\* the reflection call has returned `value`
AfterReflection(rest, frame, value) ==
    Refraction(rest, frame, Blend(frame.color, value, frame.material.reflectivity), 0)

\* the refraction call has returned `value`
AfterRefraction(rest, frame, value) ==
    Returns(rest, VClamp(Blend(frame.color, value, frame.material.transparency), 0, F(1)), 0)

(***************************************************************************)
(* The inputs the specifications draw from.                                *)
(***************************************************************************)
\* Material::default()
MatteGray == MaterialNew(Vec3(Milli(500), Milli(500), Milli(500)), Milli(100), Milli(700), Milli(200), F(200), 0, 0, F(1))
\* the sphere material of create_sphere_scene
MatteRed == MaterialNew(Vec3(Milli(800), Milli(200), Milli(200)), Milli(200), Milli(800), Milli(300), F(100), 0, 0, F(1))
\* Material::reflective(green, 0.5)
Mirror == MaterialNew(Vec3(Milli(200), Milli(800), Milli(200)), Milli(100), Milli(300), Milli(600), F(200), Milli(500), 0, F(1))
\* Material::transparent(blue, 0.9, 1.5)
Glass == MaterialNew(Vec3(Milli(200), Milli(200), Milli(800)), Milli(100), Milli(100), Milli(800), F(200), Milli(100), Milli(900), Milli(1500))

UnitSphere == SphereNew(VZero, F(1), MatteRed)
FloorPlane == PlaneNew(Vec3(0, F(-1), 0), Vec3(0, F(1), 0), MatteGray)
BackPlane == PlaneNew(Vec3(0, 0, F(1)), Vec3(0, 0, F(2)), MatteGray)
UnitCube == CubeNew(VZero, F(2), Mirror)
UnitCylinder == CylinderNew(VZero, F(1), F(2), Glass)

Primitives == {UnitSphere, FloorPlane, BackPlane, UnitCube, UnitCylinder}

Origins == {Vec3(0, 0, F(5)), Vec3(0, F(5), 0), Vec3(F(5), 0, 0), Vec3(0, F(3), 0), VZero, Vec3(0, F(-3), Milli(500))}
Directions == {Vec3(0, 0, F(-1)), Vec3(0, F(-2), 0), Vec3(F(-1), 0, 0), Vec3(F(1), F(-3), 0), Vec3(0, F(1), 0), Vec3(F(1), F(1), 0), VZero}
Rays == {RayNew(o, d) : o \in Origins, d \in Directions}
TMins == {Milli(1), F(4)}
TMaxs == {PInf, F(4), F(6)}

\* the rays Scene::hit is called with
SceneOrigins == {Vec3(0, 0, F(5)), Vec3(0, F(3), 0), VZero}
SceneDirections == {Vec3(0, 0, F(-1)), Vec3(0, F(-2), 0), Vec3(F(1), F(-3), 0), VZero}
SceneRays == {RayNew(o, d) : o \in SceneOrigins, d \in SceneDirections}

MaxObjects == 3

\* the images rendered are up to MaxWidth by MaxHeight, empty ones included
MaxWidth == 2
MaxHeight == 2

KeyLight == LightNew(Vec3(F(2), F(3), F(1)), Vec3(F(1), F(1), F(1)), F(1))
\* looks down -z from (0, 0, 5); the viewport corners are the directions (+-1, +-1, -1)
FrontCamera == CameraNew(Vec3(0, 0, F(5)), VZero, Vec3(0, F(1), 0), F(90), F(1))
\* the camera of main
MainCamera == CameraNew(Vec3(0, F(1), F(2)), Vec3(0, 0, F(-4)), Vec3(0, F(1), 0), F(60), Milli(1333))

\* a mirror ball in the top left corner of FrontCamera's view, over a matte floor
CornerBall == SphereNew(Vec3(F(-3), F(3), F(2)), F(1), Mirror)
BallOverFloor ==
    SceneSetCamera(SceneAddLight(SceneAddObject(SceneAddObject(SceneNew, CornerBall), FloorPlane),
                                 KeyLight), FrontCamera)
\* no primitives: a light and a camera, or a camera and another background
EmptyLit == SceneSetCamera(SceneAddLight(SceneNew, KeyLight), MainCamera)
EmptyDark == [SceneSetCamera(SceneNew, FrontCamera) EXCEPT !.background_color = Vec3(Milli(100), Milli(200), Milli(300))]
\* set_camera never called
NoCamera == SceneAddLight(SceneAddObject(SceneNew, UnitSphere), KeyLight)

\* background_color is a pub field: the ball and the floor under a sky
\* brighter than 1
BrightSky == [BallOverFloor EXCEPT !.background_color = Vec3(Milli(1500), Milli(1200), F(1))]

RenderScenes == {BallOverFloor, EmptyLit, EmptyDark, NoCamera, BrightSky}

\* a glass ball in the bottom left corner of InsideCamera's view, inside a mirror box
MirrorBox == CubeNew(VZero, F(10), Mirror)
GlassBall == SphereNew(Vec3(F(-2), F(-2), F(1)), F(1), Glass)
InsideCamera == CameraNew(Vec3(0, 0, F(3)), VZero, Vec3(0, F(1), 0), F(90), F(1))
HallOfMirrors ==
    SceneSetCamera(SceneAddLight(SceneAddObject(SceneAddObject(SceneNew, MirrorBox), GlassBall),
                                 KeyLight), InsideCamera)

TraceScenes == {HallOfMirrors, BallOverFloor, NoCamera}

(***************************************************************************)
(* State                                                                   *)
(***************************************************************************)
VARIABLES
    pc,                \* where the run is
    scene,             \* the Scene
    self,              \* the primitive whose hit is called
    ray,               \* the arguments of the hit under way
    t_min,
    t_max,
    hit_record,        \* what the primitive's hit returned
    closest_hit,       \* what Scene::hit returned
    image,             \* the Image render fills
    enable_reflection, \* the argument of render
    rows,              \* the rows whose closure has started
    computed,          \* per pixel index, <<colour>> once its closure has returned
    pixels,            \* the collected Vec
    next,              \* the position of the loop that stores the pixels
    stderr,            \* the progress messages
    reordered,         \* whether some pixel was finished before one of lower index
    previous,          \* <<>>, or <<the image and reordered of the first render>>
    stack,             \* the ray_color invocations under way
    ret,               \* <<>>, or <<the colour the invocation that just ended returned>>
    calls,             \* the invocations of ray_color for the pixel under way
    queries            \* the Scene::hit queries (shadow rays included) for that pixel

hitVars == <<self, ray, t_min, t_max, hit_record, closest_hit>>
renderVars == <<image, enable_reflection, rows, computed, pixels, next, stderr, reordered, previous>>
traceVars == <<stack, ret, calls, queries>>
vars == <<pc, scene, hitVars, renderVars, traceVars>>

NoRay == RayNew(VZero, VZero)

HitIdle ==
    /\ self = UnitSphere /\ ray = NoRay /\ t_min = 0 /\ t_max = 0
    /\ hit_record = <<>> /\ closest_hit = <<>>

RenderIdle ==
    /\ image = ImageNew(0, 0) /\ enable_reflection = FALSE
    /\ rows = {} /\ computed = <<>> /\ pixels = <<>> /\ next = 0 /\ stderr = <<>>
    /\ reordered = FALSE /\ previous = <<>>

TraceIdle == stack = <<>> /\ ret = <<>> /\ calls = 0 /\ queries = 0

(***************************************************************************)
(* SpecPrim: one primitive, one call of its hit.                           *)
(***************************************************************************)
InitPrim ==
    /\ pc = "call"
    /\ scene = SceneNew
    /\ self \in Primitives
    /\ ray \in Rays
    /\ t_min \in TMins
    /\ t_max \in TMaxs
    /\ hit_record = <<>>
    /\ closest_hit = <<>>
    /\ RenderIdle /\ TraceIdle

PrimReturn(result) ==
    /\ pc' = "returned"
    /\ hit_record' = result
    /\ UNCHANGED <<scene, self, ray, t_min, t_max, closest_hit, renderVars, traceVars>>

SphereHitCall ==
    /\ pc = "call" /\ self.kind = "sphere"
    /\ PrimReturn(SphereHit(self, ray, t_min, t_max))

PlaneHitCall ==
    /\ pc = "call" /\ self.kind = "plane"
    /\ PrimReturn(PlaneHit(self, ray, t_min, t_max))

CubeHitCall ==
    /\ pc = "call" /\ self.kind = "cube"
    /\ PrimReturn(CubeHit(self, ray, t_min, t_max))

CylinderHitCall ==
    /\ pc = "call" /\ self.kind = "cylinder"
    /\ PrimReturn(CylinderHit(self, ray, t_min, t_max))

NextPrim == SphereHitCall \/ PlaneHitCall \/ CubeHitCall \/ CylinderHitCall

SpecPrim == InitPrim /\ [][NextPrim]_vars

(***************************************************************************)
(* SpecScene: Scene::new, add_object any number of times, then Scene::hit. *)
(***************************************************************************)
InitScene ==
    /\ pc = "build"
    /\ scene = SceneNew
    /\ HitIdle /\ RenderIdle /\ TraceIdle

AddObject(object) ==
    /\ pc = "build"
    /\ Len(scene.objects) < MaxObjects
    /\ scene' = SceneAddObject(scene, object)
    /\ UNCHANGED <<pc, hitVars, renderVars, traceVars>>

SceneHitCall(r, lo, hi) ==
    /\ pc = "build"
    /\ pc' = "returned"
    /\ ray' = r
    /\ t_min' = lo
    /\ t_max' = hi
    /\ closest_hit' = SceneHit(scene.objects, r, lo, hi)
    /\ UNCHANGED <<scene, self, hit_record, renderVars, traceVars>>

NextScene ==
    \/ \E object \in Primitives : AddObject(object)
    \/ \E r \in SceneRays, lo \in TMins, hi \in TMaxs : SceneHitCall(r, lo, hi)

SpecScene == InitScene /\ [][NextScene]_vars

(***************************************************************************)
(* Scene::render (scene.rs), the steps both render specifications share.   *)
(* pc is "render" at the call, "tasks" while the row and pixel closures    *)
(* run, "write" during the loop that stores the collected pixels, "done"   *)
(* after the return and "panicked" after the expect has failed.            *)
(***************************************************************************)
Cells == 1..(image.width * image.height)
Index(i, j) == j * image.width + i + 1

InitRender ==
    /\ pc = "render"
    /\ enable_reflection \in BOOLEAN
    /\ \E width \in 0..MaxWidth, height \in 0..MaxHeight : image = ImageNew(width, height)
    /\ rows = {} /\ computed = <<>> /\ pixels = <<>> /\ next = 0 /\ stderr = <<>>
    /\ reordered = FALSE /\ previous = <<>>
    /\ HitIdle /\ TraceIdle

\* a render that starts its tasks without looking at the camera
RenderBeginUnchecked ==
    /\ pc = "render"
    /\ pc' = "tasks"
    /\ computed' = [k \in Cells |-> <<>>]
    /\ UNCHANGED <<scene, hitVars, image, enable_reflection, rows, pixels, next, stderr,
                   reordered, previous, traceVars>>

\* `self.camera.as_ref().expect("Camera not set")`, then the parallel
\* iterator is set up: one result slot per pixel, none filled
RenderBegin ==
    /\ pc = "render"
    /\ IF scene.camera = <<>>
       THEN pc' = "panicked" /\ UNCHANGED computed
       ELSE pc' = "tasks" /\ computed' = [k \in Cells |-> <<>>]
    /\ UNCHANGED <<scene, hitVars, image, enable_reflection, rows, pixels, next, stderr,
                   reordered, previous, traceVars>>

\* the closure of row j starts: the progress message, then the row's pixels
\* become available to run
RowTask(j) ==
    /\ pc = "tasks"
    /\ j \in 0..(image.height - 1) /\ j \notin rows
    /\ rows' = rows \cup {j}
    /\ stderr' = IF j % 10 = 0
                 THEN Append(stderr, <<"Scanlines remaining", image.height - j - 1>>)
                 ELSE stderr
    /\ UNCHANGED <<pc, scene, hitVars, image, enable_reflection, computed, pixels, next,
                   reordered, previous, traceVars>>

\* `.collect()`: every closure has returned; the results in index order
Collect ==
    /\ pc = "tasks"
    /\ rows = 0..(image.height - 1)
    /\ \A k \in Cells : computed[k] # <<>>
    /\ pixels' = [k \in Cells |-> computed[k][1]]
    /\ next' = 0
    /\ pc' = "write"
    /\ UNCHANGED <<scene, hitVars, image, enable_reflection, rows, computed, stderr,
                   reordered, previous, traceVars>>

\* one iteration of `for (i, pixel) in pixels.into_iter().enumerate()`
WritePixel ==
    /\ pc = "write"
    /\ next < Len(pixels)
    /\ LET x == next % image.width
           y == next \div image.width
       IN  image' = SetPixel(image, x, y, pixels[next + 1])
    /\ next' = next + 1
    /\ UNCHANGED <<pc, scene, hitVars, enable_reflection, rows, computed, pixels, stderr,
                   reordered, previous, traceVars>>

\* the loop is over: "Done." and the return
RenderEnd ==
    /\ pc = "write"
    /\ next = Len(pixels)
    /\ stderr' = Append(stderr, <<"Done.", 0>>)
    /\ pc' = "done"
    /\ UNCHANGED <<scene, hitVars, image, enable_reflection, rows, computed, pixels, next,
                   reordered, previous, traceVars>>

(***************************************************************************)
(* SpecRender: render with its row and pixel closures run in any order,    *)
(* each pixel closure in one step, then the same scene rendered a second   *)
(* time into a fresh image.                                                *)
(***************************************************************************)
\* the camera ray of column i of row j
PixelRay(cam, width, height, i, j) ==
    LET u == FDiv(F(i), F(width - 1))
        v == FDiv(F(height - 1 - j), F(height - 1))
    IN  GetRay(cam, u, v)

\* a pixel closure that takes over the colour its left neighbour has stored
PixelColorShared(s, cam, width, height, i, j, refl) ==
    IF i > 0 /\ computed[j * width + i] # <<>>
    THEN computed[j * width + i][1]
    ELSE RayColor(s, PixelRay(cam, width, height, i, j), MaxDepth, refl)

\* the body of the pixel closure
PixelColor(s, cam, width, height, i, j, refl) ==
    RayColor(s, PixelRay(cam, width, height, i, j), MaxDepth, refl)

\* the closure of pixel i of row j runs and returns its colour
PixelTask(j, i) ==
    /\ pc = "tasks"
    /\ j \in rows /\ i \in 0..(image.width - 1)
    /\ computed[Index(i, j)] = <<>>
    /\ computed' = [computed EXCEPT ![Index(i, j)] =
                       <<PixelColor(scene, scene.camera[1], image.width, image.height,
                                    i, j, enable_reflection)>>]
    /\ reordered' = (reordered \/ \E k \in 1..(Index(i, j) - 1) : computed[k] = <<>>)
    /\ UNCHANGED <<pc, scene, hitVars, image, enable_reflection, rows, pixels, next, stderr,
                   previous, traceVars>>

\* main's `Image::new` and `scene.render` once more, the first image kept
RenderAgain ==
    /\ pc = "done"
    /\ previous = <<>>
    /\ previous' = <<[image |-> image, reordered |-> reordered]>>
    /\ image' = ImageNew(image.width, image.height)
    /\ rows' = {} /\ computed' = <<>> /\ pixels' = <<>> /\ next' = 0 /\ stderr' = <<>>
    /\ reordered' = FALSE
    /\ pc' = "render"
    /\ UNCHANGED <<scene, hitVars, enable_reflection, traceVars>>

InitParallel == scene \in RenderScenes /\ InitRender

NextRender ==
    \/ RenderBegin
    \/ \E j \in 0..(MaxHeight - 1) : RowTask(j)
    \/ \E j \in 0..(MaxHeight - 1), i \in 0..(MaxWidth - 1) : PixelTask(j, i)
    \/ Collect
    \/ WritePixel
    \/ RenderEnd
    \/ RenderAgain

SpecRender == InitParallel /\ [][NextRender]_vars

(***************************************************************************)
(* SpecTrace: render on one thread, the rows and pixels in index order,    *)
(* ray_color one invocation step at a time.                                *)
(***************************************************************************)
Top == stack[Len(stack)]
Rest == SubSeq(stack, 1, Len(stack) - 1)
Idle == stack = <<>> /\ ret = <<>>

\* the effect of a step of ray_color on the call stack
Step(outcome) ==
    /\ stack' = outcome.stack
    /\ ret' = outcome.ret
    /\ queries' = queries + outcome.asked
    /\ calls' = IF Len(outcome.stack) > Len(stack) THEN calls + 1 ELSE calls
    /\ UNCHANGED <<pc, scene, hitVars, renderVars>>

\* the row closures in order, each after the pixels of the rows before it
RowTaskInOrder(j) ==
    /\ pc = "tasks" /\ Idle
    /\ j \in 0..(image.height - 1)
    /\ \A k \in 1..(j * image.width) : computed[k] # <<>>
    /\ \A h \in 0..(j - 1) : h \in rows
    /\ RowTask(j)

\* the closure of pixel i of row j calls ray_color(&ray, 5, enable_reflection)
TraceBegin(j, i) ==
    /\ pc = "tasks" /\ Idle
    /\ j \in rows /\ i \in 0..(image.width - 1)
    /\ computed[Index(i, j)] = <<>>
    /\ \A k \in 1..(Index(i, j) - 1) : computed[k] # <<>>
    /\ stack' = <<Frame(PixelRay(scene.camera[1], image.width, image.height, i, j), MaxDepth)>>
    /\ calls' = 1
    /\ queries' = 0
    /\ UNCHANGED <<pc, scene, hitVars, renderVars, ret>>

\* the innermost invocation runs from its entry to its first recursive
\* call or to its return
RayColorEnter ==
    /\ stack # <<>> /\ Top.stage = "enter"
    /\ Step(Enter(scene, Rest, Top, enable_reflection))

\* the reflection call of the innermost invocation has returned
ReflectionReturn ==
    /\ stack # <<>> /\ Top.stage = "reflecting" /\ ret # <<>>
    /\ Step(AfterReflection(Rest, Top, ret[1]))

\* the refraction call of the innermost invocation has returned
RefractionReturn ==
    /\ stack # <<>> /\ Top.stage = "refracting" /\ ret # <<>>
    /\ Step(AfterRefraction(Rest, Top, ret[1]))

\* the outermost invocation has returned: the closure returns its colour
TraceEnd ==
    /\ pc = "tasks" /\ stack = <<>> /\ ret # <<>>
    /\ LET k == CHOOSE c \in Cells : computed[c] = <<>> /\ \A b \in 1..(c - 1) : computed[b] # <<>>
       IN  computed' = [computed EXCEPT ![k] = ret]
    /\ ret' = <<>>
    /\ UNCHANGED <<pc, scene, hitVars, image, enable_reflection, rows, pixels, next, stderr,
                   reordered, previous, stack, calls, queries>>

InitTrace == scene \in TraceScenes /\ InitRender

NextTrace ==
    \/ RenderBegin
    \/ \E j \in 0..(MaxHeight - 1) : RowTaskInOrder(j)
    \/ \E j \in 0..(MaxHeight - 1), i \in 0..(MaxWidth - 1) : TraceBegin(j, i)
    \/ RayColorEnter
    \/ ReflectionReturn
    \/ RefractionReturn
    \/ TraceEnd
    \/ Collect
    \/ WritePixel
    \/ RenderEnd

SpecTrace == InitTrace /\ [][NextTrace]_vars

\* the steps of render itself and of the closures' start and end
Scheduling ==
    \/ RenderBegin
    \/ \E j \in 0..(MaxHeight - 1) : RowTaskInOrder(j)
    \/ TraceEnd
    \/ Collect
    \/ WritePixel
    \/ RenderEnd

\* the steps of ray_color
Tracing ==
    \/ \E j \in 0..(MaxHeight - 1), i \in 0..(MaxWidth - 1) : TraceBegin(j, i)
    \/ RayColorEnter
    \/ ReflectionReturn
    \/ RefractionReturn

\* ENABLED <<Tracing>>_vars, written as the guards of the four actions: each
\* of them is defined wherever its guard holds and changes stack
TracingEnabled ==
    \/ /\ pc = "tasks" /\ Idle
       /\ \E j \in rows, i \in 0..(image.width - 1) :
             /\ computed[Index(i, j)] = <<>>
             /\ \A k \in 1..(Index(i, j) - 1) : computed[k] # <<>>
    \/ stack # <<>> /\ Top.stage = "enter"
    \/ stack # <<>> /\ Top.stage \in {"reflecting", "refracting"} /\ ret # <<>>

\* the thread keeps running: a step that can be taken is taken.  The second
\* conjunct is WF_vars(Tracing) with its ENABLED written out.
SpecTraceFair ==
    /\ SpecTrace
    /\ WF_vars(Scheduling)
    /\ ([]<>(~TracingEnabled) \/ []<><<Tracing>>_vars)

(***************************************************************************)
(* SpecShade: one call of ray_color, on a chosen ray with a chosen depth,  *)
(* run one invocation at a time as in SpecTrace.  `ray` keeps the ray of   *)
(* the outermost invocation.                                               *)
(***************************************************************************)
White == Vec3(F(1), F(1), F(1))
\* two lights straight above the sphere, one to its side
OverheadLight == LightNew(Vec3(0, F(5), 0), White, F(1))
HighLight == LightNew(Vec3(0, F(8), 0), White, F(1))
SideLight == LightNew(Vec3(F(5), F(5), 0), White, F(1))

\* a floor one unit below the unit sphere at the origin
LowFloor == PlaneNew(Vec3(0, F(-2), 0), Vec3(0, F(1), 0), MatteGray)
GlassSphere == SphereNew(VZero, F(1), Glass)
MirrorSphere == SphereNew(VZero, F(1), Mirror)

SceneOf(objects, lights) == [SceneNew EXCEPT !.objects = objects, !.lights = lights]

\* the floor under the sphere is in the shadow of both lights, of one light,
\* or there is no light; the sphere is matte, glass or a mirror
Shadowed == SceneOf(<<UnitSphere, LowFloor>>, <<OverheadLight, HighLight>>)
HalfShadowed == SceneOf(<<UnitSphere, LowFloor>>, <<OverheadLight, SideLight>>)
Unlit == SceneOf(<<UnitSphere, LowFloor>>, <<>>)
GlassOverFloor == SceneOf(<<GlassSphere, LowFloor>>, <<OverheadLight>>)
MirrorOverFloor == SceneOf(<<MirrorSphere, LowFloor>>, <<OverheadLight, SideLight>>)

ShadeScenes == {Shadowed, HalfShadowed, Unlit, GlassOverFloor, MirrorOverFloor}

\* to the floor right under the sphere, to the floor beside it, from inside
\* the sphere to its surface at a grazing angle, to the sphere head-on and
\* off its axis, and past everything
ShadeRays ==
    {RayNew(Vec3(0, Milli(-1500), F(2)), Vec3(0, F(-1), F(-4))),
     RayNew(Vec3(F(3), Milli(-1500), F(2)), Vec3(0, F(-1), F(-4))),
     RayNew(Vec3(0, Milli(900), 0), Vec3(F(1), 0, 0)),
     RayNew(Vec3(0, 0, F(5)), Vec3(0, 0, F(-1))),
     RayNew(Vec3(0, Milli(500), F(5)), Vec3(0, 0, F(-1))),
     RayNew(Vec3(0, F(5), F(5)), Vec3(0, F(1), 0))}

\* the depths ray_color is entered with: by render, and in the recursion
ShadeDepths == {MaxDepth, 2, 1}

InitShade ==
    /\ pc = "shade"
    /\ scene \in ShadeScenes
    /\ enable_reflection \in BOOLEAN
    /\ ray \in ShadeRays
    /\ \E depth \in ShadeDepths : stack = <<Frame(ray, depth)>>
    /\ ret = <<>> /\ calls = 1 /\ queries = 0
    /\ self = UnitSphere /\ t_min = 0 /\ t_max = 0 /\ hit_record = <<>> /\ closest_hit = <<>>
    /\ image = ImageNew(0, 0)
    /\ rows = {} /\ computed = <<>> /\ pixels = <<>> /\ next = 0 /\ stderr = <<>>
    /\ reordered = FALSE /\ previous = <<>>

NextShade ==
    \/ RayColorEnter
    \/ ReflectionReturn
    \/ RefractionReturn

SpecShade == InitShade /\ [][NextShade]_vars

(***************************************************************************)
(* Claims about the primitives' hit (SpecPrim)                             *)
(***************************************************************************)
PrimHit == pc = "returned" /\ hit_record # <<>>

\* C3 as stated: every hit record a primitive returns has its t in
\* (t_min, t_max]: t is strictly greater than t_min and at most t_max.
\* The comparisons are the negated f64 ones, so that a NaN t (a degenerate
\* ray) is not what decides this claim.
C3_ExclusiveLowerBound ==
    PrimHit => ~Le(hit_record[1].t, t_min) /\ ~Gt(hit_record[1].t, t_max)

\* C3 as amended: every hit record a primitive returns has a t that is not
\* less than t_min and not greater than t_max: the lower bound is inclusive.
C3_InclusiveBounds ==
    PrimHit => ~Lt(hit_record[1].t, t_min) /\ ~Gt(hit_record[1].t, t_max)

\* a primitive has returned a hit at exactly t = t_min
C3_Witness == PrimHit /\ hit_record[1].t = t_min

\* the candidates C4 names: the lateral roots in range within the height
\* band, and the bottom and top cap crossings in range within the radius
CylinderCandidates(cyl, r, lo, hi) ==
    LET roots == CylinderRoots(cyl, r)
        half_height == FDiv(cyl.height, F(2))
        caps == IF GtEps8(FAbs(r.direction.y))
                THEN {CylinderCapT(r, FSub(cyl.center.y, half_height)),
                      CylinderCapT(r, FAdd(cyl.center.y, half_height))}
                ELSE {}
    IN  {roots[k] : k \in {j \in DOMAIN roots :
                             CylinderInRange(roots[j], lo, hi) /\ CylinderLateralOk(cyl, r, roots[j])}}
        \cup {t \in caps : CylinderInRange(t, lo, hi) /\ CylinderCapOk(cyl, r, t)}

\* C4: Cylinder::hit returns the candidate with the smallest t among all the
\* candidates in range (no result when there is none).
C4_NearestCandidate ==
    (pc = "returned" /\ self.kind = "cylinder") =>
        LET cands == CylinderCandidates(self, ray, t_min, t_max)
        IN  IF cands = {} THEN hit_record = <<>>
            ELSE /\ hit_record # <<>>
                 /\ \A t \in cands : hit_record[1].t <= t

(***************************************************************************)
(* Claims about Scene::hit (SpecScene)                                     *)
(***************************************************************************)
\* the objects that report a hit of the ray in the range
Reporting == {i \in 1..Len(scene.objects) : ObjectHit(scene.objects[i], ray, t_min, t_max) # <<>>}

\* C1: Scene::hit returns no result exactly when no object reports a hit in
\* the range; otherwise it returns a hit that no object's reported hit is
\* nearer than, paired with the object that produced that hit.
C1_NearestHit ==
    pc = "returned" =>
        /\ closest_hit = <<>> <=> Reporting = {}
        /\ closest_hit # <<>> =>
            /\ \A i \in Reporting :
                 ~Lt(ObjectHit(scene.objects[i], ray, t_min, t_max)[1].t, closest_hit[1].t)
            /\ closest_hit[2] \in 1..Len(scene.objects)
            /\ ObjectHit(scene.objects[closest_hit[2]], ray, t_min, closest_hit[1].t)
                 = <<closest_hit[1]>>

\* Scene::hit has returned the nearer of two hits, found after a farther one
C1_Witness ==
    /\ pc = "returned" /\ closest_hit # <<>>
    /\ \E i \in Reporting :
         /\ i < closest_hit[2]
         /\ Lt(closest_hit[1].t, ObjectHit(scene.objects[i], ray, t_min, t_max)[1].t)

\* what is visible of a result of Scene::hit: the record and the primitive
Visible(objs, result) == IF result = <<>> THEN <<>> ELSE <<result[1], objs[result[2]]>>

\* C2: for every permutation of the object list Scene::hit returns the same
\* hit record and the same owning primitive.
C2_OrderIrrelevant ==
    pc = "returned" =>
        \A p \in Permutations(1..Len(scene.objects)) :
            LET permuted == [i \in 1..Len(scene.objects) |-> scene.objects[p[i]]]
            IN  Visible(permuted, SceneHit(permuted, ray, t_min, t_max))
                  = Visible(scene.objects, closest_hit)

(***************************************************************************)
(* Claims about Scene::ray_color (SpecTrace)                               *)
(***************************************************************************)
\* C5: an invocation of ray_color with depth 0 returns (0, 0, 0), whatever
\* the scene, the ray and the reflection setting, and neither makes a
\* Scene::hit query (for the ray or for a shadow ray) nor a recursive call.
C5_DepthZeroIsBlack ==
    [][(stack # <<>> /\ Top.stage = "enter" /\ Top.depth = 0)
         => (stack' = Rest /\ ret' = <<VZero>> /\ queries' = queries /\ calls' = calls)]_vars

\* an invocation at depth 1 has got (0, 0, 0) back from the call it made
\* with depth 0, in a scene with objects and a light
C5_Witness ==
    /\ stack # <<>> /\ Top.depth = 1 /\ Top.stage # "enter"
    /\ ret = <<VZero>>
    /\ scene.objects # <<>> /\ scene.lights # <<>>

\* C6: every invocation on the stack has the depth of its caller less one,
\* the outermost has MaxDepth and none is below 0, so the nesting is at most
\* MaxDepth; an invocation makes at most two recursive calls; a step starts
\* at most one invocation, whatever shadow queries it makes; a pixel takes
\* at most 2^(MaxDepth+1) - 1 invocations; and the render ends.
C6_Terminates ==
    /\ [](\A k \in 1..Len(stack) :
            /\ stack[k].depth = MaxDepth - (k - 1)
            /\ stack[k].depth >= 0
            /\ stack[k].made <= 2)
    /\ [](Len(stack) - 1 <= MaxDepth)
    /\ [](calls <= 2 ^ (MaxDepth + 1) - 1)
    /\ [][Len(stack') <= Len(stack) + 1 /\ calls' <= calls + 1]_vars
    /\ <>(pc \in {"done", "panicked"})

\* the recursion has reached depth 0 below an invocation that has made both
\* its recursive calls
C6_Witness ==
    /\ Len(stack) = MaxDepth + 1
    /\ Top.depth = 0
    /\ \E k \in 1..Len(stack) : stack[k].made = 2

(***************************************************************************)
(* Claims about Scene::render (SpecRender)                                 *)
(***************************************************************************)
Columns == 0..(image.width - 1)
Lines == 0..(image.height - 1)
\* u and v as C7 states them
ClaimedU(x) == FDiv(F(x), F(image.width - 1))
ClaimedV(y) == FDiv(F(image.height - 1 - y), F(image.height - 1))

\* C7: after render every cell (x, y) has been written exactly once, with
\* the colour of the camera ray at u = x/(width-1), v = (height-1-y)/(height-1);
\* row 0 is the top of the image (v = 1) and row height-1 the bottom (v = 0).
C7_EveryCellOnce ==
    pc = "done" =>
        \A x \in Columns, y \in Lines :
            /\ image.stores[Index(x, y)] = 1
            /\ GetPixel(image, x, y)
                 = RayColor(scene, GetRay(scene.camera[1], ClaimedU(x), ClaimedV(y)),
                            MaxDepth, enable_reflection)
            /\ y = 0 => ClaimedV(y) = F(1)
            /\ y = image.height - 1 => ClaimedV(y) = 0

\* C8: whatever the order in which the row and pixel closures ran, after
\* render every cell (x, y) holds the colour the closure of pixel (x, y)
\* returned, that colour is the one computed from the pixel's own
\* coordinates alone, and a second render of the same scene with the same
\* settings gives the same image as the first.
C8_ScheduleIndependent ==
    pc = "done" =>
        /\ \A x \in Columns, y \in Lines :
              /\ GetPixel(image, x, y) = computed[Index(x, y)][1]
              /\ computed[Index(x, y)][1]
                   = PixelColor(scene, scene.camera[1], image.width, image.height,
                                x, y, enable_reflection)
        /\ previous # <<>> => image = previous[1].image

\* two renders of a scene whose pixels differ have ended, one having run its
\* pixel closures in index order and the other not
C8_Witness ==
    /\ pc = "done" /\ previous # <<>>
    /\ reordered # previous[1].reordered
    /\ \E k \in Cells : image.pixels[k] # image.pixels[1]

\* C9: after render of a scene with no primitives every pixel of the image
\* is the scene's background colour.
C9_EmptySceneIsBackground ==
    (pc = "done" /\ scene.objects = <<>>) =>
        \A k \in Cells : image.pixels[k] = scene.background_color

\* a scene with a light and no primitive has been rendered with reflection
\* enabled into an image of at least two rows and two columns
C9_Witness ==
    /\ pc = "done" /\ scene.objects = <<>> /\ scene.lights # <<>>
    /\ enable_reflection
    /\ image.width >= 2 /\ image.height >= 2

\* C10: render on a scene whose camera was never set does not return: it
\* panics, and by then no row or pixel closure has run, no ray_color
\* invocation or progress message has been made, and the image is as
\* Image::new left it.
C10_NoCameraAborts ==
    (scene.camera = <<>> /\ pc # "render") =>
        /\ pc = "panicked"
        /\ image = ImageNew(image.width, image.height)
        /\ rows = {} /\ computed = <<>> /\ pixels = <<>> /\ stderr = <<>>
        /\ stack = <<>> /\ calls = 0 /\ queries = 0

\* render has panicked on a scene with a primitive and a light, and an image
\* that has pixels
C10_Witness ==
    /\ pc = "panicked" /\ scene.camera = <<>> /\ scene.objects # <<>>
    /\ image.width >= 1 /\ image.height >= 1

(***************************************************************************)
(* Claims about the shading of one ray (SpecShade)                         *)
(***************************************************************************)
\* what ray_color's first query finds for ray r
NearestHit(r) == SceneHit(scene.objects, r, Milli(1), PInf)

\* the shadow ray from the hit toward light k hits something within the
\* light's distance
Occluded(found, k) ==
    InShadow(scene, found, DirectionFrom(scene.lights[k], found.point),
             DistanceFrom(scene.lights[k], found.point))

EveryLightOccluded(found) == \A k \in 1..Len(scene.lights) : Occluded(found, k)

\* the material adds neither a reflected nor a refracted colour
NoBounce(material) == ~Reflects(material, enable_reflection) /\ ~Gt(material.transparency, 0)

\* material.color * material.ambient clamped to [0,1]
AmbientOnly(material) == VClamp(VScale(material.color, material.ambient), 0, F(1))

\* the innermost invocation is about to run its body on a ray that hits
\* something
EntersOnHit ==
    /\ stack # <<>> /\ Top.stage = "enter" /\ ~Exhausted(Top.depth)
    /\ NearestHit(Top.ray) # <<>>

\* C11: when the shadow ray toward every light hits some object within that
\* light's distance and the material adds neither reflection nor
\* transparency, ray_color returns material.color * material.ambient clamped
\* to [0,1]: no light's diffuse or specular term is in it.
C11_ShadowedIsAmbient ==
    [][(/\ EntersOnHit
        /\ NoBounce(scene.objects[NearestHit(Top.ray)[2]].material)
        /\ EveryLightOccluded(NearestHit(Top.ray)[1]))
         => (/\ stack' = Rest
             /\ ret' = <<AmbientOnly(scene.objects[NearestHit(Top.ray)[2]].material)>>)]_vars

\* the call has returned the ambient colour for a point of the floor that
\* faces two lights, both hidden by the sphere
C11_Witness ==
    /\ pc = "shade" /\ stack = <<>> /\ ret # <<>>
    /\ NearestHit(ray) # <<>>
    /\ Len(scene.lights) = 2
    /\ EveryLightOccluded(NearestHit(ray)[1])
    /\ NoBounce(scene.objects[NearestHit(ray)[2]].material)
    /\ \A k \in 1..Len(scene.lights) :
          Gt(Dot(NearestHit(ray)[1].normal,
                 DirectionFrom(scene.lights[k], NearestHit(ray)[1].point)), 0)
    /\ ret[1] = AmbientOnly(scene.objects[NearestHit(ray)[2]].material)

(***************************************************************************)
(* Claims about the colours render stores (SpecRender)                     *)
(***************************************************************************)
InUnitRange(a) == Ge(a, 0) /\ Le(a, F(1))

\* C12: every colour render has stored in the image has its three channels
\* within [0,1], whether the pixel's ray hit an object or took the scene's
\* background colour.
C12_ColoursInUnitRange ==
    \A k \in Cells :
        image.stores[k] > 0 =>
            /\ InUnitRange(image.pixels[k].x)
            /\ InUnitRange(image.pixels[k].y)
            /\ InUnitRange(image.pixels[k].z)

(***************************************************************************)
(* Claims about degenerate rays and the cube's normal (SpecPrim)           *)
(***************************************************************************)
\* the direction is the zero vector or has a zero component
Degenerate(r) == r.direction.x = 0 \/ r.direction.y = 0 \/ r.direction.z = 0

FiniteVec(a) == IsFinite(a.x) /\ IsFinite(a.y) /\ IsFinite(a.z)

\* C13: on a ray whose direction is zero or has a zero component no
\* primitive's hit returns a record built from a division by zero: a record
\* it returns has a finite t and a finite point.
C13_DegenerateRaysFinite ==
    (PrimHit /\ Degenerate(ray)) =>
        IsFinite(hit_record[1].t) /\ FiniteVec(hit_record[1].point)

\* the signed unit vector of the axis of largest magnitude of offset d, the
\* axis chosen by the priority x over y over z among equal magnitudes
DominantAxisXYZ(d) ==
    IF Ge(FAbs(d.x), FAbs(d.y)) /\ Ge(FAbs(d.x), FAbs(d.z)) THEN Vec3(FSignum(d.x), 0, 0)
    ELSE IF Ge(FAbs(d.y), FAbs(d.z)) THEN Vec3(0, FSignum(d.y), 0)
    ELSE Vec3(0, 0, FSignum(d.z))

\* C14: the normal of the record Cube::hit returns is built from the signed
\* unit vector of the axis along which the hit point's offset from the
\* centre is largest in magnitude, ties going to x before y before z.
C14_DominantAxisNormal ==
    (PrimHit /\ self.kind = "cube") =>
        hit_record[1].normal
          = HitRecordNew(hit_record[1].point,
                         DominantAxisXYZ(VSub(hit_record[1].point, self.center)),
                         hit_record[1].t, ray).normal

\* the signed unit vector of the axis of largest magnitude of offset d, the
\* axis chosen by the priority z over y over x among equal magnitudes: z
\* unless another axis is strictly larger, else y unless x is strictly larger
DominantAxisZYX(d) ==
    IF ~Gt(FAbs(d.x), FAbs(d.z)) /\ ~Gt(FAbs(d.y), FAbs(d.z)) THEN Vec3(0, 0, FSignum(d.z))
    ELSE IF ~Gt(FAbs(d.x), FAbs(d.y)) THEN Vec3(0, FSignum(d.y), 0)
    ELSE Vec3(FSignum(d.x), 0, 0)

\* C14 as amended: the normal of the record Cube::hit returns is built from
\* the signed unit vector of the axis along which the hit point's offset
\* from the centre is largest in magnitude, ties going to z before y before
\* x.
C14_DominantAxisNormalZYX ==
    (PrimHit /\ self.kind = "cube") =>
        hit_record[1].normal
          = HitRecordNew(hit_record[1].point,
                         DominantAxisZYX(VSub(hit_record[1].point, self.center)),
                         hit_record[1].t, ray).normal

\* Cube::hit has returned a hit on the edge where the x and y offsets are
\* equal and larger than the z offset
C14_Witness ==
    /\ PrimHit /\ self.kind = "cube"
    /\ FiniteVec(hit_record[1].point)
    /\ FAbs(hit_record[1].point.x - self.center.x) = FAbs(hit_record[1].point.y - self.center.y)
    /\ FAbs(hit_record[1].point.x - self.center.x) > FAbs(hit_record[1].point.z - self.center.z)
    /\ hit_record[1].normal.x = 0 /\ hit_record[1].normal.y # 0

(***************************************************************************)
(* Claims about the reflection and refraction steps (SpecShade)            *)
(***************************************************************************)
\* the material of the object the ray of invocation `frame` hits first
HitMaterial(frame) == scene.objects[NearestHit(frame.ray)[2]].material

\* the direction refract gives for the hit of invocation `frame`, with the
\* ratio 1/refractive_index on a front face and refractive_index otherwise
Transmitted(frame, hit, material) ==
    Refract(frame.ray.direction, hit.normal,
            IF hit.front_face THEN FDiv(F(1), material.refractive_index)
            ELSE material.refractive_index)

\* the step leaves the innermost invocation waiting in `stage` for a call it
\* has just made on ray r, holding `color`
Waits(stage, color, r) ==
    /\ Len(stack') = Len(stack) + 1
    /\ stack'[Len(stack)].stage = stage
    /\ stack'[Len(stack)].color = color
    /\ stack'[Len(stack)].made = Top.made + 1
    /\ stack'[Len(stack) + 1].ray = r
    /\ stack'[Len(stack) + 1].stage = "enter"

\* the step ends the innermost invocation with `color` clamped
Ends(color) == stack' = Rest /\ ret' = <<VClamp(color, 0, F(1))>>

\* the refraction step on `color`: a refraction call when the material is
\* transparent and a refracted direction exists, the end otherwise
RefractionStep(frame, hit, material, color) ==
    IF Gt(material.transparency, 0) /\ Transmitted(frame, hit, material) # <<>>
    THEN Waits("refracting", color,
               RayNew(VSub(hit.point, VScale(hit.normal, Milli(1))),
                      Transmitted(frame, hit, material)[1]))
    ELSE Ends(color)

\* C15: the reflection call is made exactly when reflection is enabled and
\* material.reflectivity > 0, on the colour of the ambient and direct
\* lighting; its result is blended in by reflectivity before the refraction
\* step; the refraction call is made whenever material.transparency > 0 and
\* a refracted direction exists, reflection enabled or not, and its result
\* is blended by transparency onto the colour the reflection step left.
C15_ReflectionThenRefraction ==
    [][/\ EntersOnHit =>
            IF enable_reflection /\ Gt(HitMaterial(Top).reflectivity, 0)
            THEN Waits("reflecting",
                       LocalColor(scene, NearestHit(Top.ray)[1], HitMaterial(Top), Top.ray),
                       RayNew(VAdd(NearestHit(Top.ray)[1].point,
                                   VScale(NearestHit(Top.ray)[1].normal, Milli(1))),
                              Reflect(Top.ray.direction, NearestHit(Top.ray)[1].normal)))
            ELSE RefractionStep(Top, NearestHit(Top.ray)[1], HitMaterial(Top),
                                LocalColor(scene, NearestHit(Top.ray)[1], HitMaterial(Top),
                                           Top.ray))
       /\ (stack # <<>> /\ Top.stage = "reflecting" /\ ret # <<>>) =>
            RefractionStep(Top, Top.hit_record, Top.material,
                           Blend(Top.color, ret[1], Top.material.reflectivity))
       /\ (stack # <<>> /\ Top.stage = "refracting" /\ ret # <<>>) =>
            Ends(Blend(Top.color, ret[1], Top.material.transparency))
      ]_vars

\* an invocation waits for its refraction call after its reflection call
\* has returned a colour that changed the one it holds
C15_Witness ==
    \E k \in 1..Len(stack) :
        /\ stack[k].stage = "refracting" /\ stack[k].made = 2
        /\ enable_reflection
        /\ stack[k].color
             # LocalColor(scene, stack[k].hit_record, stack[k].material, stack[k].ray)

\* sin^2 of the transmitted angle for direction d at normal n with ratio eta
SinT2(d, n, eta) ==
    FMul(FMul(eta, eta), FSub(F(1), FMul(FNeg(Dot(d, n)), FNeg(Dot(d, n)))))

\* total internal reflection at `hit` for the ray of `frame`: the material
\* is transparent and sin^2 of the transmitted angle, with the ratio
\* 1/refractive_index on a front face and refractive_index otherwise, is
\* above 1
TotalInternal(frame, hit, material) ==
    /\ Gt(material.transparency, 0)
    /\ Gt(SinT2(frame.ray.direction, hit.normal,
                IF hit.front_face THEN FDiv(F(1), material.refractive_index)
                ELSE material.refractive_index),
          F(1))

\* the step ends the innermost invocation with `color` clamped and starts no
\* invocation
EndsWithoutCall(color) == Ends(color) /\ calls' = calls

\* C16: on total internal reflection the invocation makes no refraction call
\* and no further reflection call, and returns the colour it had before the
\* transparency step (clamped), whether that step follows the direct
\* lighting or the return of the reflection call.
C16_TotalInternalReflection ==
    [][/\ (/\ EntersOnHit
            /\ ~(enable_reflection /\ Gt(HitMaterial(Top).reflectivity, 0))
            /\ TotalInternal(Top, NearestHit(Top.ray)[1], HitMaterial(Top)))
            => EndsWithoutCall(LocalColor(scene, NearestHit(Top.ray)[1], HitMaterial(Top),
                                          Top.ray))
       /\ (/\ stack # <<>> /\ Top.stage = "reflecting" /\ ret # <<>>
            /\ TotalInternal(Top, Top.hit_record, Top.material))
            => EndsWithoutCall(Blend(Top.color, ret[1], Top.material.reflectivity))
      ]_vars

\* the call on a ray that meets the glass from inside at a grazing angle has
\* returned the colour of the direct lighting without a recursive call
C16_Witness ==
    /\ pc = "shade" /\ stack = <<>> /\ ret # <<>> /\ calls = 1
    /\ NearestHit(ray) # <<>>
    /\ ~NearestHit(ray)[1].front_face
    /\ TotalInternal([ray |-> ray], NearestHit(ray)[1],
                     scene.objects[NearestHit(ray)[2]].material)
    /\ ret[1] = VClamp(LocalColor(scene, NearestHit(ray)[1],
                                  scene.objects[NearestHit(ray)[2]].material, ray), 0, F(1))

=============================================================================
